---- MODULE Spec2Model ----
(***************************************************************************)
(* Model of back/app.py: the Flask handler optimize_gif_endpoint and the   *)
(* pipeline optimize_gif_with_pillow_and_gifsicle, run by request threads  *)
(* that share one scratch directory (TEMP_DIR) and one wall clock. A       *)
(* thread serves one request, as the threads of the Flask server do.       *)
(***************************************************************************)
EXTENDS Integers, Sequences, FiniteSets, TLC

\* ------------------------------------------------------------------ bounds
MaxFiles == 2      \* files in one multipart request
MaxFrames == 3     \* frames of a well-formed input GIF
MaxClock == 1      \* ticks of the wall clock after process start

\* ------------------------------------------------------- program constants
LossyDefault == 200
ColorsDefault == 64
LossyMin == 0
LossyMax == 300
ColorsMin == 2
ColorsMax == 256
DurationDefault == 100
LoopForever == 0
StatusOK == 200
StatusBadRequest == 400

Threads == {"t1", "t2"}

\* Optional[bytes] and Optional[base64 text]: None, or Some(sequence)
NoneSeq == [some |-> FALSE, val |-> <<>>]

Some(x) == [some |-> TRUE, val |-> x]

\* Optional[int]
NoneInt == [some |-> FALSE, val |-> 0]

\* a form field: not sent, or sent with a text
Absent == [sent |-> FALSE, text |-> <<>>]

Sent(s) == [sent |-> TRUE, text |-> s]

GifMime == "image/gif"
PngMime == "image/png"

\* an error message: its fixed text, and the values formatted into it
Msg(text, code, detail) == [text |-> text, code |-> code, detail |-> detail]

\* Optional[str] None in the place of an error message
NoError == Msg("None", 0, "")

UnavailableMsg ==
    Msg("Gifsicle command is unavailable. Please check the server environment.", 0, "")

NoFilesMsg == Msg("No files found under the expected file key.", 0, "")

BadSettingsMsg == Msg("Invalid optimization settings value.", 0, "")

\* f'File is not a GIF file ({file.mimetype}).'
NotGifMsg(mimetype) == Msg("File is not a GIF file", 0, mimetype)

\* the except branch that leaves error_message as it was
UnexpectedMsgLost(e) == NoError

\* f"Unexpected error during processing: {str(e)}"
UnexpectedMsg(e) == Msg("Unexpected error during processing", 0, e)

\* f"Gifsicle execution error (Code {e.returncode}): {std_error or 'Unknown Gifsicle error'}"
GifsicleMsg(returncode, std_error) ==
    Msg("Gifsicle execution error", returncode,
        IF std_error = "" THEN "Unknown Gifsicle error" ELSE std_error)

\* str(e) of the exceptions the pipeline catches
WriteFailed == "[Errno 28] No space left on device"
NotFound == "[Errno 2] No such file or directory"
CannotIdentify == "cannot identify image file"
NoFrames == "Could not extract valid frames from GIF."
TimedOut == "Command timed out after 90 seconds"
NoOutput == "Gifsicle output file was not created."

\* ----------------------------------------------------------------- helpers
DigitChars == <<"0", "1", "2", "3", "4", "5", "6", "7", "8", "9">>

DigitVal(c) == CHOOSE d \in 0..9 : DigitChars[d + 1] = c

IsDigit(c) == \E d \in 0..9 : DigitChars[d + 1] = c

RECURSIVE IntStr(_)
\* str(n) for a natural number n
IntStr(n) == IF n < 10 THEN <<DigitChars[n + 1]>>
             ELSE IntStr(n \div 10) \o <<DigitChars[(n % 10) + 1]>>

\* str(x) for a float x = h / 100: the shortest repr, which keeps one
\* fractional digit at least and drops a trailing zero
FloatStr(h) ==
    IntStr(h \div 100) \o <<".">> \o
    (IF h % 10 = 0 THEN <<DigitChars[((h % 100) \div 10) + 1]>>
     ELSE <<DigitChars[((h % 100) \div 10) + 1], DigitChars[(h % 10) + 1]>>)

\* s.replace('.', '')
DropDots(s) == SelectSeq(s, LAMBDA c : c # ".")

\* the wall clock at process start, in hundredths of a second
Epoch == 1700 * 100

\* unique_id = str(time.time()).replace('.', '')
UniqueId(now) == DropDots(FloatStr(now))

\* os.path.join(TEMP_DIR, f'{prefix}{unique_id}.gif')
ScratchPath(prefix, id) == <<"temp_gifsicle_data/", prefix>> \o id \o <<".gif">>

InFull(id) == ScratchPath("temp_in_full_", id)
Reduced(id) == ScratchPath("temp_reduced_", id)
OutFile(id) == ScratchPath("temp_out_", id)

ScratchFiles(id) == <<InFull(id), Reduced(id), OutFile(id)>>

\* ------------------------------------------------------------------ inputs
\* int(s) of Python for a form value s: an optional sign, then digits only
ParseOK(s) ==
    LET body == IF Len(s) > 0 /\ s[1] \in {"-", "+"} THEN Tail(s) ELSE s
    IN  Len(body) > 0 /\ \A k \in 1..Len(body) : IsDigit(body[k])

RECURSIVE DigitsVal(_)
DigitsVal(ds) == IF ds = <<>> THEN 0
                 ELSE 10 * DigitsVal(SubSeq(ds, 1, Len(ds) - 1)) + DigitVal(ds[Len(ds)])

IntOf(s) == IF s[1] = "-" THEN 0 - DigitsVal(Tail(s))
            ELSE IF s[1] = "+" THEN DigitsVal(Tail(s))
            ELSE DigitsVal(s)

\* request.form.get(name, default) followed by int(...)
FieldOK(v) == ~v.sent \/ ParseOK(v.text)

FieldInt(v, default) == IF v.sent THEN IntOf(v.text) ELSE default

\* max(lo, min(hi, v))
Min(a, b) == IF a < b THEN a ELSE b

Max(a, b) == IF a > b THEN a ELSE b

\* min(hi, v): the lower limit forgotten
ClampCeilingOnly(lo, hi, v) == Min(hi, v)

Clamp(lo, hi, v) == Max(lo, Min(hi, v))

\* form values a client may send for lossy and colors
FormTexts ==
    { <<>>, <<"x">>, <<"1", ".", "5">>,
      <<"-", "1", "0">>, <<"9", "9", "9", "9">>,
      <<"0">>, <<"1">>, <<"2">>, <<"1", "5", "0">>,
      <<"2", "5", "6">>, <<"2", "5", "7">>, <<"3", "0", "0">>, <<"3", "0", "1">> }

FormValues == { Absent } \cup { Sent(s) : s \in FormTexts }


\* uploaded bytes, described by their length and by what Pillow decodes
\* from them: frames (each an identifier of its pixels) and the duration
\* of img.info, or nothing when the bytes are no image
NoDuration == [present |-> FALSE, ms |-> 0]

Duration(ms) == [present |-> TRUE, ms |-> ms]

Durations == { NoDuration, Duration(40) }

GifBytes(n, d) ==
    [size |-> 10 + n, wf |-> TRUE, frames |-> [k \in 1..n |-> 20 + k], duration |-> d]

JunkBytes(n) == [size |-> n, wf |-> FALSE, frames |-> <<>>, duration |-> NoDuration]

\* the local img before Image.open has returned
NoImage == JunkBytes(0)

AllBytes == { GifBytes(n, d) : n \in 1..MaxFrames, d \in Durations }
            \cup { JunkBytes(0), JunkBytes(5) }

FewBytes == { GifBytes(MaxFrames, NoDuration), JunkBytes(5) }

Uploads(bytes) == [mimetype : {GifMime, PngMime}, bytes : bytes]

FileLists(bytes, n) == UNION { [1..k -> Uploads(bytes)] : k \in 0..n }

Request(files, lossy, colors) == [files |-> files, lossy |-> lossy, colors |-> colors]

\* requests of up to MaxFiles files, of either type, with the default settings
ManyFiles == { Request(files, Absent, Absent) : files \in FileLists(FewBytes, MaxFiles) }

\* requests of one file, of every content
AnyFile == { Request(files, Absent, Absent) : files \in FileLists(AllBytes, 1) }

\* requests with every pair of form values, of no file and of two GIF files
AnySettings ==
    { Request(files, lossy, colors) :
        files \in { <<>>, [k \in 1..2 |-> [mimetype |-> GifMime, bytes |-> JunkBytes(5)]] },
        lossy \in FormValues, colors \in FormValues }

\* the requests a thread may receive when it is the only one
Requests == ManyFiles \cup AnyFile \cup AnySettings

\* the requests threads may receive while another request is served
ConcurrentRequests ==
    { Request(files, lossy, Absent) :
        files \in FileLists(FewBytes, 1), lossy \in { Absent, Sent(<<"x">>) } }

\* what gifsicle may leave in its output file
OutputBytes == { <<>>, <<71, 73, 70, 56>> }

RECURSIVE B64(_)
\* base64.b64encode(bs): sextets, 64 standing for the padding '='
B64(bs) ==
    IF bs = <<>> THEN <<>>
    ELSE IF Len(bs) = 1 THEN
        << bs[1] \div 4, (bs[1] % 4) * 16, 64, 64 >>
    ELSE IF Len(bs) = 2 THEN
        << bs[1] \div 4, (bs[1] % 4) * 16 + bs[2] \div 16, (bs[2] % 16) * 4, 64 >>
    ELSE
        << bs[1] \div 4, (bs[1] % 4) * 16 + bs[2] \div 16,
           (bs[2] % 16) * 4 + bs[3] \div 64, bs[3] % 64 >>
        \o B64(SubSeq(bs, 4, Len(bs)))

\* Python truthiness of an Optional[bytes]
Truthy(b) == b.some /\ b.val # <<>>

\* if i % 2 == 1: the odd frames kept
OddFrames(fr) ==
    LET keep == { k \in 1..Len(fr) : (k - 1) % 2 = 1 }
    IN  [j \in 1..Cardinality(keep) |-> fr[2 * j]]

\* for i in range(n_frames): if i % 2 == 0: frames.append(img.copy())
EvenFrames(fr) ==
    LET keep == { k \in 1..Len(fr) : (k - 1) % 2 = 0 }
    IN  [j \in 1..Cardinality(keep) |-> fr[2 * j - 1]]

\* img.info.get('duration', 100)
OriginalDuration(image) ==
    IF image.duration.present THEN image.duration.ms ELSE DurationDefault

NewDuration(image) == OriginalDuration(image) * 2

\* ------------------------------------------------------------------- state
VARIABLES
    GIFSICLE_AVAILABLE, \* the flag set once at import
    clock,              \* ticks of time.time() since process start
    fs,                 \* TEMP_DIR: path -> content of the file
    pc,                 \* where each request thread stands
    received,           \* whether the thread has been given its request
    req,                \* the request a thread is serving
    lossy_val,          \* handler locals
    colors_val,
    results,
    idx,                \* position of `file` in uploaded_files
    response,           \* what the handler returned last
    unique_id,          \* pipeline locals
    img,
    optimized_bytes,
    error_message,
    cleanup_k,          \* position of `filename` in the cleanup loop
    encoded,            \* history: what frames[0].save was given
    invocations,        \* history: the calls of the pipeline
    touched             \* history: the calls that changed TEMP_DIR

vars == << GIFSICLE_AVAILABLE, clock, fs, pc, received, req, lossy_val, colors_val,
           results, idx, response, unique_id, img, optimized_bytes,
           error_message, cleanup_k, encoded, invocations, touched >>

handlerVars == << req, received, lossy_val, colors_val, results, idx, response >>

pipelineVars == << unique_id, img, optimized_bytes, error_message, cleanup_k, encoded >>

NoRequest == Request(<<>>, Absent, Absent)

NoResponse == [status |-> 0, error |-> NoError, results |-> <<>>]

NotEncoded == [saved |-> FALSE, frames |-> <<>>, duration |-> 0, loop |-> 0]

NoId == <<>>

\* the file system calls on TEMP_DIR
Exists(path) == path \in DOMAIN fs

Written(path, data) ==
    [q \in DOMAIN fs \cup {path} |-> IF q = path THEN data ELSE fs[q]]

Removed(path) == [q \in DOMAIN fs \ {path} |-> fs[q]]

\* the call of the pipeline a thread is in
ThisCall(t) == [thread |-> t, file |-> idx[t]]

Init ==
    /\ GIFSICLE_AVAILABLE \in BOOLEAN
    /\ clock = 0
    /\ fs = [q \in {} |-> <<>>]
    /\ pc = [t \in Threads |-> "idle"]
    /\ received = [t \in Threads |-> FALSE]
    /\ req = [t \in Threads |-> NoRequest]
    /\ lossy_val = [t \in Threads |-> 0]
    /\ colors_val = [t \in Threads |-> 0]
    /\ results = [t \in Threads |-> <<>>]
    /\ idx = [t \in Threads |-> 0]
    /\ response = [t \in Threads |-> NoResponse]
    /\ unique_id = [t \in Threads |-> NoId]
    /\ img = [t \in Threads |-> NoImage]
    /\ optimized_bytes = [t \in Threads |-> NoneSeq]
    /\ error_message = [t \in Threads |-> NoError]
    /\ cleanup_k = [t \in Threads |-> 0]
    /\ encoded = [t \in Threads |-> NotEncoded]
    /\ invocations = {}
    /\ touched = {}

\* ----------------------------------------------------------------- handler
\* the handler without its check of the file list
NoFilesUnchecked(files) == FALSE

\* if not uploaded_files
NoFiles(files) == files = <<>>

\* both int(...) of the try block succeed
SettingsOK(lossy, colors) == FieldOK(lossy) /\ FieldOK(colors)

EffectiveLossy(lossy) == Clamp(LossyMin, LossyMax, FieldInt(lossy, LossyDefault))

EffectiveColors(colors) == Clamp(ColorsMin, ColorsMax, FieldInt(colors, ColorsDefault))

\* the loop without its MIME type check
IsGifUnchecked(file) == TRUE

\* file.mimetype != 'image/gif'
IsGif(file) == file.mimetype = GifMime

\* results.insert(0, entry)
Prepended(rs, entry) == <<entry>> \o rs

\* results.append(entry)
Appended(rs, entry) == Append(rs, entry)

Receive(t, files, lossy, colors) ==
    /\ pc[t] = "idle"
    /\ ~received[t]
    /\ received' = [received EXCEPT ![t] = TRUE]
    /\ req' = [req EXCEPT ![t] = Request(files, lossy, colors)]
    /\ results' = [results EXCEPT ![t] = <<>>]

\* the request carries no file: 400
RejectNoFiles(t, files, lossy, colors) ==
    /\ Receive(t, files, lossy, colors)
    /\ NoFiles(files)
    /\ response' = [response EXCEPT ![t] =
            [status |-> StatusBadRequest, error |-> NoFilesMsg, results |-> <<>>]]
    /\ idx' = [idx EXCEPT ![t] = 0]
    /\ UNCHANGED << GIFSICLE_AVAILABLE, clock, fs, pc, lossy_val, colors_val,
                    pipelineVars, invocations, touched >>

\* lossy or colors is no integer: 400
RejectBadSettings(t, files, lossy, colors) ==
    /\ Receive(t, files, lossy, colors)
    /\ ~NoFiles(files)
    /\ ~SettingsOK(lossy, colors)
    /\ response' = [response EXCEPT ![t] =
            [status |-> StatusBadRequest, error |-> BadSettingsMsg, results |-> <<>>]]
    /\ idx' = [idx EXCEPT ![t] = 0]
    /\ UNCHANGED << GIFSICLE_AVAILABLE, clock, fs, pc, lossy_val, colors_val,
                    pipelineVars, invocations, touched >>

\* the settings are parsed and clamped, the loop over the files starts
Accept(t, files, lossy, colors) ==
    /\ Receive(t, files, lossy, colors)
    /\ ~NoFiles(files)
    /\ SettingsOK(lossy, colors)
    /\ lossy_val' = [lossy_val EXCEPT ![t] = EffectiveLossy(lossy)]
    /\ colors_val' = [colors_val EXCEPT ![t] = EffectiveColors(colors)]
    /\ response' = [response EXCEPT ![t] = NoResponse]
    /\ idx' = [idx EXCEPT ![t] = 1]
    /\ pc' = [pc EXCEPT ![t] = "loop"]
    /\ UNCHANGED << GIFSICLE_AVAILABLE, clock, fs, pipelineVars, invocations, touched >>

File(t) == req[t].files[idx[t]]

InLoop(t) == pc[t] = "loop" /\ idx[t] <= Len(req[t].files)

\* a file that is no GIF gets its entry without a call of the pipeline
SkipNotGif(t) ==
    /\ InLoop(t)
    /\ ~IsGif(File(t))
    /\ results' = [results EXCEPT ![t] = Appended(@,
            [original_size |-> File(t).bytes.size,
             error |-> NotGifMsg(File(t).mimetype),
             optimized_data |-> NoneSeq])]
    /\ idx' = [idx EXCEPT ![t] = @ + 1]
    /\ UNCHANGED << GIFSICLE_AVAILABLE, clock, fs, pc, received, req, lossy_val, colors_val,
                    response, pipelineVars, invocations, touched >>

\* the pipeline without its availability check
UnavailableIgnored == FALSE

\* if not GIFSICLE_AVAILABLE
Unavailable == ~GIFSICLE_AVAILABLE

\* the call of the pipeline up to the try block: the early return when
\* gifsicle is missing, otherwise the scratch names and the two result slots
CallPipeline(t) ==
    /\ InLoop(t)
    /\ IsGif(File(t))
    /\ optimized_bytes' = [optimized_bytes EXCEPT ![t] = NoneSeq]
    /\ img' = [img EXCEPT ![t] = NoImage]
    /\ encoded' = [encoded EXCEPT ![t] = NotEncoded]
    /\ cleanup_k' = [cleanup_k EXCEPT ![t] = 0]
    /\ IF Unavailable
       THEN /\ error_message' = [error_message EXCEPT ![t] = UnavailableMsg]
            /\ unique_id' = [unique_id EXCEPT ![t] = NoId]
            /\ pc' = [pc EXCEPT ![t] = "returned"]
       ELSE /\ error_message' = [error_message EXCEPT ![t] = NoError]
            /\ unique_id' = [unique_id EXCEPT ![t] = UniqueId(Epoch + clock)]
            /\ pc' = [pc EXCEPT ![t] = "write"]
    /\ invocations' = invocations \cup
            { [call |-> ThisCall(t), lossy |-> lossy_val[t], colors |-> colors_val[t],
               input |-> File(t).bytes, id |-> unique_id'[t]] }
    /\ UNCHANGED << GIFSICLE_AVAILABLE, clock, fs, handlerVars, touched >>

\* an exception caught by `except Exception`
Raise(t, e) ==
    /\ error_message' = [error_message EXCEPT ![t] = UnexpectedMsg(e)]
    /\ pc' = [pc EXCEPT ![t] = "cleanup"]
    /\ cleanup_k' = [cleanup_k EXCEPT ![t] = 1]

\* with open(input_filename_full, 'wb') as f: f.write(input_bytes)
WriteInput(t) ==
    /\ pc[t] = "write"
    /\ fs' = Written(InFull(unique_id[t]), File(t).bytes)
    /\ touched' = touched \cup {ThisCall(t)}
    /\ pc' = [pc EXCEPT ![t] = "reduce"]
    /\ UNCHANGED << GIFSICLE_AVAILABLE, clock, handlerVars, pipelineVars, invocations >>

\* the write raises OSError; open may have created the file before
WriteInputFails(t) ==
    /\ pc[t] = "write"
    /\ \/ UNCHANGED << fs, touched >>
       \/ /\ fs' = Written(InFull(unique_id[t]), JunkBytes(0))
          /\ touched' = touched \cup {ThisCall(t)}
    /\ Raise(t, WriteFailed)
    /\ UNCHANGED << GIFSICLE_AVAILABLE, clock, handlerVars, unique_id, img,
                    optimized_bytes, encoded, invocations >>

\* what frames[0].save(..., save_all, append_images, duration, loop=0) writes
ReducedGif(frames, duration) ==
    [saved |-> TRUE, frames |-> frames, duration |-> duration, loop |-> LoopForever]

\* Image.open, the loop over the frames and frames[0].save
ReduceFrames(t) ==
    /\ pc[t] = "reduce"
    /\ Exists(InFull(unique_id[t]))
    /\ fs[InFull(unique_id[t])].wf
    /\ LET image == fs[InFull(unique_id[t])]
           frames == EvenFrames(image.frames)
       IN  /\ img' = [img EXCEPT ![t] = image]
           /\ IF frames = <<>>
              THEN /\ Raise(t, NoFrames)
                   /\ UNCHANGED << fs, touched, encoded >>
              ELSE /\ fs' = Written(Reduced(unique_id[t]),
                                    ReducedGif(frames, NewDuration(image)))
                   /\ encoded' = [encoded EXCEPT ![t] =
                                    ReducedGif(frames, NewDuration(image))]
                   /\ touched' = touched \cup {ThisCall(t)}
                   /\ pc' = [pc EXCEPT ![t] = "gifsicle"]
                   /\ UNCHANGED << error_message, cleanup_k >>
    /\ UNCHANGED << GIFSICLE_AVAILABLE, clock, handlerVars, unique_id,
                    optimized_bytes, invocations >>

\* Image.open raises: the file is gone, or its bytes are no image
DecodeFails(t) ==
    /\ pc[t] = "reduce"
    /\ \/ /\ ~Exists(InFull(unique_id[t]))
          /\ Raise(t, NotFound)
       \/ /\ Exists(InFull(unique_id[t]))
          /\ ~fs[InFull(unique_id[t])].wf
          /\ Raise(t, CannotIdentify)
    /\ UNCHANGED << GIFSICLE_AVAILABLE, clock, fs, handlerVars, unique_id, img,
                    optimized_bytes, encoded, invocations, touched >>

\* frames[0].save raises OSError; the file may have been created before
SaveFails(t) ==
    /\ pc[t] = "reduce"
    /\ Exists(InFull(unique_id[t]))
    /\ fs[InFull(unique_id[t])].wf
    /\ img' = [img EXCEPT ![t] = fs[InFull(unique_id[t])]]
    /\ \/ UNCHANGED << fs, touched >>
       \/ /\ fs' = Written(Reduced(unique_id[t]), NotEncoded)
          /\ touched' = touched \cup {ThisCall(t)}
    /\ Raise(t, WriteFailed)
    /\ UNCHANGED << GIFSICLE_AVAILABLE, clock, handlerVars, unique_id,
                    optimized_bytes, encoded, invocations >>

\* what gifsicle may print on stderr, stripped
StdErrs == { "", "gifsicle: read error" }

\* subprocess.run(command, check=True, ...) returns: gifsicle has exited 0,
\* with or without having written its output file
RunGifsicle(t) ==
    /\ pc[t] = "gifsicle"
    /\ \/ /\ Exists(Reduced(unique_id[t]))
          /\ \E out \in OutputBytes : fs' = Written(OutFile(unique_id[t]), out)
          /\ touched' = touched \cup {ThisCall(t)}
       \/ UNCHANGED << fs, touched >>
    /\ pc' = [pc EXCEPT ![t] = "read"]
    /\ UNCHANGED << GIFSICLE_AVAILABLE, clock, handlerVars, pipelineVars, invocations >>

\* gifsicle exits non-zero: except subprocess.CalledProcessError
GifsicleFails(t) ==
    /\ pc[t] = "gifsicle"
    /\ \E std_error \in StdErrs :
          error_message' = [error_message EXCEPT ![t] = GifsicleMsg(1, std_error)]
    /\ pc' = [pc EXCEPT ![t] = "cleanup"]
    /\ cleanup_k' = [cleanup_k EXCEPT ![t] = 1]
    /\ UNCHANGED << GIFSICLE_AVAILABLE, clock, fs, handlerVars, unique_id, img,
                    optimized_bytes, encoded, invocations, touched >>

\* gifsicle is killed after 90 seconds: subprocess.TimeoutExpired, caught by
\* except Exception; a partial output file may be left
GifsicleTimesOut(t) ==
    /\ pc[t] = "gifsicle"
    /\ \/ UNCHANGED << fs, touched >>
       \/ /\ fs' = Written(OutFile(unique_id[t]), <<>>)
          /\ touched' = touched \cup {ThisCall(t)}
    /\ Raise(t, TimedOut)
    /\ UNCHANGED << GIFSICLE_AVAILABLE, clock, handlerVars, unique_id, img,
                    optimized_bytes, encoded, invocations >>

\* if not os.path.exists(output_filename): raise; else read the file
ReadOutput(t) ==
    /\ pc[t] = "read"
    /\ IF Exists(OutFile(unique_id[t]))
       THEN /\ optimized_bytes' = [optimized_bytes EXCEPT ![t] =
                                        Some(fs[OutFile(unique_id[t])])]
            /\ pc' = [pc EXCEPT ![t] = "cleanup"]
            /\ cleanup_k' = [cleanup_k EXCEPT ![t] = 1]
            /\ UNCHANGED error_message
       ELSE /\ Raise(t, NoOutput)
            /\ UNCHANGED optimized_bytes
    /\ UNCHANGED << GIFSICLE_AVAILABLE, clock, fs, handlerVars, unique_id, img,
                    encoded, invocations, touched >>

\* the finally block moves on to the next file name, and returns after the last
CleanupNext(t) ==
    /\ IF cleanup_k[t] < Len(ScratchFiles(unique_id[t]))
       THEN /\ cleanup_k' = [cleanup_k EXCEPT ![t] = @ + 1]
            /\ UNCHANGED pc
       ELSE /\ cleanup_k' = [cleanup_k EXCEPT ![t] = 0]
            /\ pc' = [pc EXCEPT ![t] = "returned"]
    /\ UNCHANGED << GIFSICLE_AVAILABLE, clock, handlerVars, unique_id, img,
                    optimized_bytes, error_message, encoded, invocations >>

CleanupFile(t) == ScratchFiles(unique_id[t])[cleanup_k[t]]

\* if os.path.exists(filename) is false
CleanupSkips(t) ==
    /\ pc[t] = "cleanup"
    /\ ~Exists(CleanupFile(t))
    /\ UNCHANGED << fs, touched >>
    /\ CleanupNext(t)

\* os.remove(filename)
CleanupRemoves(t) ==
    /\ pc[t] = "cleanup"
    /\ Exists(CleanupFile(t))
    /\ fs' = Removed(CleanupFile(t))
    /\ touched' = touched \cup {ThisCall(t)}
    /\ CleanupNext(t)

\* os.remove(filename) raises OSError: pass
CleanupRemoveFails(t) ==
    /\ pc[t] = "cleanup"
    /\ Exists(CleanupFile(t))
    /\ UNCHANGED << fs, touched >>
    /\ CleanupNext(t)

\* the handler maps the pair the pipeline returned to the file's entry
Collect(t) ==
    /\ pc[t] = "returned"
    /\ LET ok == Truthy(optimized_bytes[t]) /\ error_message[t] = NoError
       IN  results' = [results EXCEPT ![t] = Appended(@,
               [original_size |-> File(t).bytes.size,
                optimized_data |-> IF ok THEN Some(B64(optimized_bytes[t].val))
                                   ELSE NoneSeq,
                optimized_size |-> IF ok THEN Some(Len(optimized_bytes[t].val))
                                   ELSE NoneInt,
                error |-> error_message[t]])]
    /\ idx' = [idx EXCEPT ![t] = @ + 1]
    /\ pc' = [pc EXCEPT ![t] = "loop"]
    /\ UNCHANGED << GIFSICLE_AVAILABLE, clock, fs, received, req, lossy_val, colors_val,
                    response, pipelineVars, invocations, touched >>

\* return jsonify({'results': results}), 200
Respond(t) ==
    /\ pc[t] = "loop"
    /\ idx[t] > Len(req[t].files)
    /\ response' = [response EXCEPT ![t] =
            [status |-> StatusOK, error |-> NoError, results |-> results[t]]]
    /\ pc' = [pc EXCEPT ![t] = "idle"]
    /\ UNCHANGED << GIFSICLE_AVAILABLE, clock, fs, received, req, lossy_val, colors_val,
                    results, idx, pipelineVars, invocations, touched >>

\* time.time() has moved on by one step of its resolution
Tick ==
    /\ clock < MaxClock
    /\ clock' = clock + 1
    /\ UNCHANGED << GIFSICLE_AVAILABLE, fs, pc, handlerVars, pipelineVars,
                    invocations, touched >>

\* ---------------------------------------------------------- specifications
Serve(t, requests) ==
    \/ /\ pc[t] = "idle"
       /\ ~received[t]
       /\ \E r \in requests :
             \/ RejectNoFiles(t, r.files, r.lossy, r.colors)
             \/ RejectBadSettings(t, r.files, r.lossy, r.colors)
             \/ Accept(t, r.files, r.lossy, r.colors)
    \/ SkipNotGif(t)
    \/ CallPipeline(t)
    \/ WriteInput(t)
    \/ WriteInputFails(t)
    \/ ReduceFrames(t)
    \/ DecodeFails(t)
    \/ SaveFails(t)
    \/ RunGifsicle(t)
    \/ GifsicleFails(t)
    \/ GifsicleTimesOut(t)
    \/ ReadOutput(t)
    \/ CleanupSkips(t)
    \/ CleanupRemoves(t)
    \/ CleanupRemoveFails(t)
    \/ Collect(t)
    \/ Respond(t)

\* request threads running concurrently
Next == Tick \/ \E t \in Threads : Serve(t, ConcurrentRequests)

Spec == Init /\ [][Next]_vars

\* one request thread, serving each of Requests
NextOne == Tick \/ Serve("t1", Requests)

SpecOne == Init /\ [][NextOne]_vars

\* ------------------------------------------------------------------ claims
\* the calls of the pipeline that got as far as naming scratch files
Named == { c \in invocations : c.id # NoId }

PathsOf(id) == { ScratchFiles(id)[k] : k \in 1..3 }

\* the calls of the pipeline made for the request of thread t
CallsOf(t) == { c \in invocations : c.call.thread = t }

Served(t) == received[t]

\* C1: any two calls of the pipeline have different scratch-file
\* identifiers, so they share none of their three scratch paths.
C1_DistinctScratchIds ==
    \A a \in Named, b \in Named :
        a.call # b.call => a.id # b.id /\ PathsOf(a.id) \cap PathsOf(b.id) = {}

\* C2: when a call of the pipeline returns, none of its three scratch files
\* exists in the scratch directory, whatever way the call ended.
C2_NoScratchFileAtReturn ==
    \A t \in Threads :
        pc[t] = "returned" /\ unique_id[t] # NoId =>
            \A k \in 1..3 : ~Exists(ScratchFiles(unique_id[t])[k])

\* C3: every return of the pipeline yields a pair of which exactly one
\* component is not None.
C3_ExactlyOneSlot ==
    \A t \in Threads :
        pc[t] = "returned" =>
            (optimized_bytes[t].some) # (error_message[t] # NoError)

C3_Witness ==
    /\ pc["t1"] = "returned" /\ optimized_bytes["t1"].some
    /\ pc["t2"] = "returned" /\ error_message["t2"] # NoError
    /\ unique_id["t2"] # NoId

\* C4: in every entry of the results of a 200 response, optimized_data is a
\* base64 string exactly when error is None; no entry has both None.
C4_DataIffNoError ==
    \A t \in Threads :
        response[t].status = StatusOK =>
            \A i \in 1..Len(response[t].results) :
                response[t].results[i].optimized_data.some
                    <=> response[t].results[i].error = NoError

\* C5, as claimed: with gifsicle unavailable, every file of every request
\* gets a result whose error is the unavailability message, and the scratch
\* directory is never touched.
C5_EveryFileUnavailable ==
    ~GIFSICLE_AVAILABLE =>
        /\ \A t \in Threads :
              response[t].status = StatusOK =>
                  /\ Len(response[t].results) = Len(req[t].files)
                  /\ \A i \in 1..Len(response[t].results) :
                        response[t].results[i].error = UnavailableMsg
        /\ touched = {}
        /\ DOMAIN fs = {}

\* C5, amended: with gifsicle unavailable, every image/gif file of every
\* request that passed validation gets a result whose error is the
\* unavailability message and whose data is None, every other file of such
\* a request gets the not-a-GIF error, and no call of the pipeline names,
\* creates, writes or deletes a scratch file.
C5_GifFilesUnavailable ==
    ~GIFSICLE_AVAILABLE =>
        /\ \A t \in Threads :
              \A i \in 1..Len(results[t]) :
                  /\ ~results[t][i].optimized_data.some
                  /\ IF req[t].files[i].mimetype = GifMime
                     THEN results[t][i].error = UnavailableMsg
                     ELSE results[t][i].error = NotGifMsg(req[t].files[i].mimetype)
        /\ \A t \in Threads :
              response[t].status = StatusOK =>
                  response[t].results = results[t] /\ Len(results[t]) = Len(req[t].files)
        /\ \A t \in Threads : pc[t] \in {"idle", "loop", "returned"}
        /\ Named = {}
        /\ touched = {}
        /\ DOMAIN fs = {}

C5_Witness ==
    /\ ~GIFSICLE_AVAILABLE
    /\ \E t \in Threads :
          /\ response[t].status = StatusOK
          /\ Len(response[t].results) = 2
          /\ req[t].files[1].mimetype = PngMime
          /\ req[t].files[2].mimetype = GifMime
          /\ response[t].results[2].error = UnavailableMsg

\* the request of t has a file and settings that int() accepts
WellFormed(t) ==
    /\ Len(req[t].files) >= 1
    /\ ~req[t].lossy.sent \/ ParseOK(req[t].lossy.text)
    /\ ~req[t].colors.sent \/ ParseOK(req[t].colors.text)

\* entry i of rs describes file i of the request of t
Describes(t, rs, i) ==
    /\ rs[i].original_size = req[t].files[i].bytes.size
    /\ (rs[i].error.text = "File is not a GIF file")
           <=> (req[t].files[i].mimetype # GifMime)
    /\ rs[i].error.text = "File is not a GIF file"
           => rs[i].error.detail = req[t].files[i].mimetype

\* C6: a request with at least one file and integer settings is answered
\* with 200 and one entry per file, entry i describing file i, however many
\* files failed; while it is served no entry is dropped.
C6_OneEntryPerFileInOrder ==
    \A t \in Threads :
        Served(t) /\ WellFormed(t) =>
            /\ response[t].status # StatusBadRequest
            /\ pc[t] = "idle" =>
                  /\ response[t].status = StatusOK
                  /\ Len(response[t].results) = Len(req[t].files)
                  /\ \A i \in 1..Len(req[t].files) : Describes(t, response[t].results, i)
            /\ pc[t] # "idle" =>
                  /\ Len(results[t]) = idx[t] - 1
                  /\ idx[t] <= Len(req[t].files) + 1
                  /\ \A i \in 1..Len(results[t]) : Describes(t, results[t], i)

C6_Witness ==
    \E t \in Threads :
        /\ response[t].status = StatusOK
        /\ Len(response[t].results) = 2
        /\ response[t].results[1].error # NoError
        /\ response[t].results[1].error.text # "File is not a GIF file"
        /\ response[t].results[2].optimized_data.some
        /\ response[t].results[1].original_size # response[t].results[2].original_size

\* C7: for a file whose MIME type is not image/gif the pipeline is never
\* called and no scratch file is touched, and its entry has an error and no
\* data; the GIF files of the same request are passed to the pipeline.
C7_NotGifSkipsPipeline ==
    \A t \in Threads :
        /\ \A c \in CallsOf(t) : req[t].files[c.call.file].mimetype = GifMime
        /\ \A c \in touched :
              c.thread = t => req[t].files[c.file].mimetype = GifMime
        /\ \A i \in 1..Len(results[t]) :
              IF req[t].files[i].mimetype # GifMime
              THEN /\ results[t][i].error # NoError
                   /\ ~results[t][i].optimized_data.some
              ELSE \E c \in CallsOf(t) :
                      c.call.file = i /\ c.input = req[t].files[i].bytes

C7_Witness ==
    \E t \in Threads :
        /\ response[t].status = StatusOK
        /\ Len(response[t].results) = 2
        /\ req[t].files[1].mimetype = PngMime
        /\ req[t].files[2].mimetype = GifMime
        /\ response[t].results[1].error = NotGifMsg(PngMime)
        /\ response[t].results[2].optimized_data.some
        /\ \E c \in touched : c.thread = t /\ c.file = 2

\* C8: a request with no file, or whose lossy or colors is no integer, is
\* answered with 400 and an error body before any file is processed: the
\* pipeline is not called and no scratch file is touched for it.
C8_BadRequestRejected ==
    \A t \in Threads :
        Served(t) /\ ~WellFormed(t) =>
            /\ pc[t] = "idle"
            /\ response[t].status = StatusBadRequest
            /\ response[t].error # NoError
            /\ response[t].results = <<>>
            /\ results[t] = <<>>
            /\ CallsOf(t) = {}
            /\ \A c \in touched : c.thread # t

C8_Witness ==
    \E t \in Threads :
        /\ response[t].status = StatusBadRequest
        /\ Len(req[t].files) = 2
        /\ ~req[t].lossy.sent
        /\ req[t].colors.sent /\ ~ParseOK(req[t].colors.text)

\* what the claim says the pipeline is given for a form value
Effective(v, lo, hi, default) ==
    IF ~v.sent THEN default
    ELSE IF IntOf(v.text) < lo THEN lo
    ELSE IF IntOf(v.text) > hi THEN hi
    ELSE IntOf(v.text)

\* C9: the pipeline is given lossy clamped to [0, 300] and colors clamped to
\* [2, 256], 200 and 64 when the field is absent, the same pair for every
\* file of the request; a value out of range is corrected, not rejected.
C9_SettingsClamped ==
    \A t \in Threads :
        Served(t) /\ WellFormed(t) =>
            /\ response[t].status # StatusBadRequest
            /\ \A c \in CallsOf(t) :
                  /\ c.lossy = Effective(req[t].lossy, 0, 300, 200)
                  /\ c.colors = Effective(req[t].colors, 2, 256, 64)
                  /\ c.lossy \in 0..300
                  /\ c.colors \in 2..256

C9_Witness ==
    \E t \in Threads :
        /\ req[t].lossy = Sent(<<"-", "1", "0">>)
        /\ req[t].colors = Sent(<<"9", "9", "9", "9">>)
        /\ response[t].status = StatusOK
        /\ Cardinality(CallsOf(t)) = 2
        /\ \A c \in CallsOf(t) : c.lossy = 0 /\ c.colors = 256

\* C10: from a decoded image of N >= 1 frames the pipeline re-encodes the
\* frames at indices 0, 2, 4, ... in that order, ceil(N/2) of them (one
\* when N = 1, and never the no-frames failure), with a duration of twice
\* the image's duration (twice 100 when it has none).
C10_EvenFramesDoubleDuration ==
    \A t \in Threads :
        /\ img[t].wf =>
              /\ error_message[t] # UnexpectedMsg(NoFrames)
              /\ Len(img[t].frames) >= 1
        /\ pc[t] \in {"gifsicle", "read"} => encoded[t].saved
        /\ encoded[t].saved =>
              LET n == Len(img[t].frames)
              IN  /\ img[t].wf
                  /\ Len(encoded[t].frames) = (n + 1) \div 2
                  /\ \A j \in 1..Len(encoded[t].frames) :
                        encoded[t].frames[j] = img[t].frames[2 * (j - 1) + 1]
                  /\ encoded[t].duration =
                        2 * (IF img[t].duration.present THEN img[t].duration.ms ELSE 100)

C10_Witness ==
    \E t \in Threads :
        /\ encoded[t].saved
        /\ Len(img[t].frames) = 3
        /\ Len(encoded[t].frames) = 2
        /\ img[t].duration.present
        /\ img[t] = File(t).bytes

====
